---- MODULE Spec2Model ----
(***************************************************************************)
(* A model of the admission controller of lib/throttle.js (Throttle, its   *)
(* rate estimate and its vasync work queue).                               *)
(*                                                                         *)
(* Time is the monotonic clock of process.hrtime(), counted in ticks of    *)
(* 1/TicksPerSec second: an hrtime value [sec, nsec] is the tick count     *)
(* sec * TicksPerSec + nsec, and the nanosecond component of a difference  *)
(* is the difference modulo TicksPerSec.                                   *)
(*                                                                         *)
(* Node runs every handler to completion on one thread, so each handler    *)
(* (a wait() call, a setImmediate callback) is one atomic action.          *)
(*                                                                         *)
(* requestQueue is a vasync work queue: push() appends the task to queued  *)
(* and dispatches queued tasks while npending < concurrency; the worker of *)
(* a dispatched task is invoked from setImmediate, never inside push();    *)
(* length() is the number of tasks in queued (throttle.js:165, 173-178     *)
(* name it the number of pending requests, apart from npending).           *)
(***************************************************************************)
EXTENDS Integers, Sequences, FiniteSets, TLC

\* ---------------------------------------------------------------- bounds
MaxReq == 4          \* wait() calls per behaviour
MaxTime == 4         \* last clock tick
TicksPerSec == 3     \* clock ticks per second
MaxConcurrency == 2  \* options.concurrency ranges over 1..MaxConcurrency
MaxCapacity == 2     \* options.requestRateCapacity ranges over 1..MaxCapacity
MaxTolerance == 2    \* options.queueTolerance ranges over 1..MaxTolerance
E2ERequests == 21    \* wait() calls of the overload scenario: 1 earlier + 20

VARIABLES
    th,        \* the Throttle object (its fields, the requestQueue included)
    clock,     \* process.hrtime(), in ticks
    nreq,      \* number of wait() calls made so far; requests are 1..nreq
    calls,     \* every invocation of a request's callback `next`, in order
    waited,    \* the requests in the queue whose wait() call left them in
               \* queued (they had to wait for a slot)
    nstarted,  \* how many requests that had to wait have been started
    last,      \* what the most recent wait() call saw and did
    twin,      \* a second throttle in passive mode, fed the same calls
    ctor,      \* a call of createThrottle: the options given and how it ended
    sg,        \* the CheckStream object (its fields)
    io         \* the CheckStream's surroundings: timers, scheduled callbacks,
               \* listeners, and what it emitted and returned so far

vars == <<th, clock, nreq, calls, waited, nstarted, last, twin, ctor, sg, io>>

\* ------------------------------------------------------ hrtime arithmetic
\* process.hrtime(prev) / jsprim.hrtimeDiff(a, b): the pair
\* <<whole seconds, sub-second remainder>> of a - b.
hrtimeDiff(a, b) == <<(a - b) \div TicksPerSec, (a - b) % TicksPerSec>>

\* A request rate, requests per second, kept as an exact fraction:
\* count / (ticks / TicksPerSec).
ZeroRate == [num |-> 0, den |-> 1]
Rate(count, ticks) == [num |-> count * TicksPerSec, den |-> ticks]
RateGT(rate, cap) == rate.num > cap * rate.den

\* ------------------------------------------------- vasync.queue (WorkQueue)
\* queued: entries not yet dispatched, oldest first.  pending: entries
\* dispatched to the worker and not yet completed, in dispatch order; the
\* worker of each is scheduled with setImmediate, so pending is also the
\* order in which the scheduled callbacks run.  npending is Len(pending).
queue(concurrency) ==
    [queued |-> <<>>, pending |-> <<>>, concurrency |-> concurrency]

npending(q) == Len(q.pending)

\* length() counting the running entries too.
lengthWithRunning(q) == Len(q.queued) + Len(q.pending)

\* WorkQueue.length(): the number of entries waiting, those running excluded.
length(q) == Len(q.queued)

\* WorkQueue.dispatch(entry): take a slot and schedule the worker.
dispatch(q, entry) == [q EXCEPT !.pending = Append(@, entry)]

\* dispatchNext without the test for a free slot.
RECURSIVE dispatchNextNoLimit(_)
dispatchNextNoLimit(q) ==
    IF Len(q.queued) > 0
    THEN dispatchNextNoLimit(
             dispatch([q EXCEPT !.queued = Tail(@)], Head(q.queued)))
    ELSE q

\* dispatchNext taking the newest queued entry instead of the oldest.
RECURSIVE dispatchNextNewest(_)
dispatchNextNewest(q) ==
    IF Len(q.queued) > 0 /\ npending(q) < q.concurrency
    THEN dispatchNextNewest(
             dispatch([q EXCEPT !.queued = SubSeq(@, 1, Len(@) - 1)],
                      q.queued[Len(q.queued)]))
    ELSE q

\* WorkQueue.dispatchNext(): start queued entries, oldest first, while a
\* slot is free.
RECURSIVE dispatchNext(_)
dispatchNext(q) ==
    IF Len(q.queued) > 0 /\ npending(q) < q.concurrency
    THEN dispatchNext(dispatch([q EXCEPT !.queued = Tail(@)], Head(q.queued)))
    ELSE q

\* WorkQueue.push(task)
push(q, task) == dispatchNext([q EXCEPT !.queued = Append(@, task)])

\* complete that frees the slot and does not start the next queued entry.
completeNoDispatch(q) == [q EXCEPT !.pending = Tail(@)]

\* complete that leaves the entry in its slot.
completeKeepSlot(q) == q

\* The completion callback the worker hands to the task: free the slot of
\* the oldest dispatched entry and start the next queued one.
complete(q) == dispatchNext([q EXCEPT !.pending = Tail(@)])

\* ------------------------------------------------------------- Throttle
\* new Throttle(options), for options that pass the assertions.
Throttle(options) ==
    [enabled |-> options.enabled,
     concurrency |-> options.concurrency,
     requestRateCapacity |-> options.requestRateCapacity,
     rateCheckInterval |-> options.rateCheckInterval,
     queueTolerance |-> options.queueTolerance,
     requestQueue |-> queue(options.concurrency),
     lastCheck |-> options.now,
     mostRecentRequestRate |-> ZeroRate,
     requestsPerCheckInterval |-> 0]

\* computeRequestRate without the test for an elapsed time of zero.
computeRequestRateNoZeroTest(self, checkTime) ==
    LET elapsed == hrtimeDiff(checkTime, self.lastCheck)
    IN  [self |-> [self EXCEPT !.lastCheck = checkTime],
         ret |-> Rate(self.requestsPerCheckInterval, elapsed[2])]

\* Throttle.prototype.computeRequestRate, reading the clock at checkTime.
computeRequestRate(self, checkTime) ==
    LET elapsed == hrtimeDiff(checkTime, self.lastCheck)
    IN  IF elapsed[2] = 0
        THEN [self |-> self, ret |-> ZeroRate]
        ELSE [self |-> [self EXCEPT !.lastCheck = checkTime],
              ret |-> Rate(self.requestsPerCheckInterval, elapsed[2])]

\* recordArrival that recomputes the rate and forgets to reset the counter.
recordArrivalNoReset(self, t1, t2) ==
    LET s1 == [self EXCEPT !.requestsPerCheckInterval = @ + 1]
        elapsed == hrtimeDiff(t1, s1.lastCheck)[2]
        crr == computeRequestRate(s1, t2)
    IN  IF elapsed > s1.rateCheckInterval
        THEN [self |-> [crr.self EXCEPT !.mostRecentRequestRate = crr.ret],
              checked |-> TRUE]
        ELSE [self |-> s1, checked |-> FALSE]

\* recordArrival testing the whole elapsed time, seconds included.
recordArrivalWholeTime(self, t1, t2) ==
    LET s1 == [self EXCEPT !.requestsPerCheckInterval = @ + 1]
        elapsed == t1 - s1.lastCheck
        crr == computeRequestRate(s1, t2)
    IN  IF elapsed > s1.rateCheckInterval
        THEN [self |-> [crr.self EXCEPT !.mostRecentRequestRate = crr.ret,
                                        !.requestsPerCheckInterval = 0],
              checked |-> TRUE]
        ELSE [self |-> s1, checked |-> FALSE]

\* The first part of wait(), lines 229-239: count the arrival and, when the
\* sub-second part of the time since lastCheck exceeds rateCheckInterval,
\* recompute the rate and reset the counter.  t1 is the clock read by wait
\* itself, t2 the clock read by computeRequestRate (t2 >= t1).
recordArrival(self, t1, t2) ==
    LET s1 == [self EXCEPT !.requestsPerCheckInterval = @ + 1]
        elapsed == hrtimeDiff(t1, s1.lastCheck)[2]
        crr == computeRequestRate(s1, t2)
    IN  IF elapsed > s1.rateCheckInterval
        THEN [self |-> [crr.self EXCEPT !.mostRecentRequestRate = crr.ret,
                                        !.requestsPerCheckInterval = 0],
              checked |-> TRUE]
        ELSE [self |-> s1, checked |-> FALSE]

\* shouldThrottle with "or" for "and".
shouldThrottleEither(self) ==
    \/ RateGT(self.mostRecentRequestRate, self.requestRateCapacity)
    \/ length(self.requestQueue) >= self.queueTolerance

\* shouldThrottle looking at the queue alone.
shouldThrottleQueueOnly(self) ==
    length(self.requestQueue) >= self.queueTolerance

\* shouldThrottle with > for >= on the queue length.
shouldThrottleStrict(self) ==
    /\ RateGT(self.mostRecentRequestRate, self.requestRateCapacity)
    /\ length(self.requestQueue) > self.queueTolerance

\* The admission test of wait(), lines 245-246.
shouldThrottle(self) ==
    /\ RateGT(self.mostRecentRequestRate, self.requestRateCapacity)
    /\ length(self.requestQueue) >= self.queueTolerance

\* admit pushing onto the queue in both modes.
admitAlwaysQueue(self, req) ==
    [self |-> [self EXCEPT !.requestQueue = push(@, req)], next |-> "none"]

\* admit without the else: the enabled branch falls through to next().
admitBoth(self, req) ==
    IF self.enabled
    THEN [self |-> [self EXCEPT !.requestQueue = push(@, req)],
          next |-> "proceed"]
    ELSE [self |-> self, next |-> "proceed"]

\* The last part of wait(), lines 261-272, for a request that is not
\* rejected: through the queue when enabled, next() at once otherwise.
\* `next` is how the callback was invoked before wait returned.
admit(self, req) ==
    IF self.enabled
    THEN [self |-> [self EXCEPT !.requestQueue = push(@, req)],
          next |-> "none"]
    ELSE [self |-> self, next |-> "proceed"]

\* Throttle.prototype.wait(req, res, next).  The result holds the throttle
\* after the call and what the call did: `next` is how the callback was
\* invoked before wait returned ("none" when it was not), `throttled`
\* whether the request_throttled probe fired, `checked` whether the rate
\* was recomputed, `startTime` whether req.throttleStartTime was written.
waitDecideFirst(self, req, t1, t2) ==
    LET a == recordArrival(self, t1, t2)
        throttled == shouldThrottle(self)
        adm == admit(a.self, req)
    IN  IF throttled /\ self.enabled
        THEN [self |-> self, next |-> "ThrottledError", throttled |-> TRUE,
              checked |-> FALSE, startTime |-> FALSE,
              order |-> <<"next">>]
        ELSE [self |-> adm.self, next |-> adm.next, throttled |-> throttled,
              checked |-> a.checked, startTime |-> TRUE,
              order |-> <<"throttleStartTime",
                          IF adm.next = "none" THEN "push" ELSE "next">>]
waitStampFirst(self, req, t1, t2) ==
    LET a == recordArrival(self, t1, t2)
        throttled == shouldThrottle(a.self)
        adm == admit(a.self, req)
    IN  IF throttled /\ a.self.enabled
        THEN [self |-> a.self, next |-> "ThrottledError", throttled |-> TRUE,
              checked |-> a.checked, startTime |-> TRUE,
              order |-> <<"throttleStartTime", "next">>]
        ELSE [self |-> adm.self, next |-> adm.next, throttled |-> throttled,
              checked |-> a.checked, startTime |-> TRUE,
              order |-> <<"throttleStartTime",
                          IF adm.next = "none" THEN "push" ELSE "next">>]

\* order lists, in execution order, what the call does to the request and its
\* callback: the rejection returns before the timestamp is written; otherwise
\* the timestamp is written and then the request is queued or next() called.
wait(self, req, t1, t2) ==
    LET a == recordArrival(self, t1, t2)
        throttled == shouldThrottle(a.self)
        adm == admit(a.self, req)
    IN  IF throttled /\ a.self.enabled
        THEN [self |-> a.self, next |-> "ThrottledError", throttled |-> TRUE,
              checked |-> a.checked, startTime |-> FALSE,
              order |-> <<"next">>]
        ELSE [self |-> adm.self, next |-> adm.next, throttled |-> throttled,
              checked |-> a.checked, startTime |-> TRUE,
              order |-> <<"throttleStartTime",
                          IF adm.next = "none" THEN "push" ELSE "next">>]

\* ------------------------------------------------------------ the system
Options ==
    [enabled : BOOLEAN,
     concurrency : 1..MaxConcurrency,
     requestRateCapacity : 1..MaxCapacity,
     rateCheckInterval : 1..TicksPerSec,
     queueTolerance : 1..MaxTolerance,
     now : {0}]

NoCall == [req |-> 0, next |-> "none", throttled |-> FALSE, checked |-> FALSE,
           rateOver |-> FALSE, qlen |-> 0, running |-> 0,
           startTime |-> FALSE, order |-> <<>>]

NoTwin == [th |-> Throttle([enabled |-> FALSE, concurrency |-> 1,
                            requestRateCapacity |-> 1, rateCheckInterval |-> 1,
                            queueTolerance |-> 1, now |-> 0]),
           throttled |-> FALSE, next |-> "none"]

\* No createThrottle call under observation, no CheckStream.
NoCtor == [options |-> <<>>, result |-> "none"]
NoGuard == <<>>
NoIo == <<>>

InitWith(options) ==
    /\ th = Throttle(options)
    /\ ctor = NoCtor
    /\ sg = NoGuard
    /\ io = NoIo
    /\ clock = 0
    /\ nreq = 0
    /\ calls = <<>>
    /\ waited = {}
    /\ nstarted = 0
    /\ last = NoCall

Init == \E o \in Options : InitWith(o) /\ twin = NoTwin

\* The record of one invocation of a request's callback.
Call(req, how) == [req |-> req, how |-> how]

\* Request nreq + 1 arrives: the handler chain calls
\* throttle.wait(req, res, next).  The clock may advance by adv ticks between
\* the two readings of it.
Arrive(adv) ==
    /\ clock + adv <= MaxTime
    /\ LET r == wait(th, nreq + 1, clock, clock + adv)
       IN  /\ th' = r.self
           /\ clock' = IF r.checked THEN clock + adv ELSE clock
           /\ calls' = IF r.next = "none" THEN calls
                       ELSE Append(calls, Call(nreq + 1, r.next))
           /\ waited' = IF length(r.self.requestQueue) > length(th.requestQueue)
                        THEN waited \cup {nreq + 1} ELSE waited
           /\ last' = [req |-> nreq + 1, next |-> r.next,
                       throttled |-> r.throttled, checked |-> r.checked,
                       rateOver |-> RateGT(r.self.mostRecentRequestRate,
                                           r.self.requestRateCapacity),
                       qlen |-> Len(th.requestQueue.queued),
                       running |-> Len(th.requestQueue.pending),
                       startTime |-> r.startTime, order |-> r.order]
    /\ nreq' = nreq + 1
    /\ UNCHANGED <<nstarted, ctor, sg, io>>

Wait ==
    /\ nreq < MaxReq
    /\ \E adv \in 0..1 : Arrive(adv)
    /\ UNCHANGED twin

\* The setImmediate callback of the oldest dispatched entry runs: the worker
\* calls the task, which invokes next() and then the completion callback.
RunImmediate ==
    /\ npending(th.requestQueue) > 0
    /\ LET req == Head(th.requestQueue.pending)
       IN  /\ calls' = Append(calls, Call(req, "proceed"))
           /\ waited' = waited \ {req}
           /\ nstarted' = IF req \in waited THEN nstarted + 1 ELSE nstarted
    /\ th' = [th EXCEPT !.requestQueue = complete(@)]
    /\ UNCHANGED <<clock, nreq, last, twin, ctor, sg, io>>

\* Time passes.
Tick ==
    /\ clock < MaxTime
    /\ clock' = clock + 1
    /\ UNCHANGED <<th, nreq, calls, waited, nstarted, last, twin, ctor, sg, io>>

Next == Wait \/ RunImmediate \/ Tick

Spec == Init /\ [][Next]_vars

\* Throttles whose rateCheckInterval is one second or more.
SlowOptions ==
    [enabled : BOOLEAN,
     concurrency : 1..MaxConcurrency,
     requestRateCapacity : 1..MaxCapacity,
     rateCheckInterval : {TicksPerSec, TicksPerSec + 1, 2 * TicksPerSec},
     queueTolerance : 1..MaxTolerance,
     now : {0}]
SlowInit == \E o \in SlowOptions : InitWith(o) /\ twin = NoTwin
SlowSpec == SlowInit /\ [][Next]_vars

\* The event loop runs every scheduled setImmediate callback.
FairSpec == Spec /\ WF_vars(RunImmediate)

TypeOK ==
    /\ clock \in 0..MaxTime
    /\ nreq \in 0..MaxReq
    /\ th.lastCheck \in 0..clock
    /\ Len(calls) <= nreq

\* ------------------------------------------------- the overload scenario
\* concurrency=1, requestRateCapacity=10, rateCheckInterval=1s,
\* queueTolerance=2, enabled=true; one earlier request and a burst of 20.
E2EOptions ==
    [enabled |-> TRUE, concurrency |-> 1, requestRateCapacity |-> 10,
     rateCheckInterval |-> TicksPerSec, queueTolerance |-> 2, now |-> 0]

E2EInit == InitWith(E2EOptions) /\ twin = NoTwin

E2EWait ==
    /\ nreq < E2ERequests
    /\ \E adv \in 0..1 : Arrive(adv)
    /\ UNCHANGED twin

E2ENext == E2EWait \/ RunImmediate \/ Tick

E2ESpec == E2EInit /\ [][E2ENext]_vars

\* ------------------------------------------- an enabled throttle and its twin
\* th is enabled; twin.th has the same options but enabled=false and is
\* handed every request at the same clock readings.
TwinInit ==
    \E o \in Options :
        /\ o.enabled
        /\ InitWith(o)
        /\ twin = [th |-> Throttle([o EXCEPT !.enabled = FALSE]),
                   throttled |-> FALSE, next |-> "none"]

TwinWait ==
    /\ nreq < MaxReq
    /\ \E adv \in 0..1 :
        /\ Arrive(adv)
        /\ LET r == wait(twin.th, nreq + 1, clock, clock + adv)
           IN  twin' = [th |-> r.self, throttled |-> r.throttled,
                        next |-> r.next]

TwinNext == TwinWait \/ RunImmediate \/ Tick

TwinSpec == TwinInit /\ [][TwinNext]_vars

\* ------------------------------------------- computeRequestRate on its own
\* The method applied to a throttle with any count of requests and any
\* lastCheck, at any time from lastCheck on; `last` keeps the call.
RateInit ==
    /\ \E o \in Options, n \in 0..MaxReq, t \in 0..MaxTime :
          th = [Throttle(o) EXCEPT !.lastCheck = t,
                                   !.requestsPerCheckInterval = n]
    /\ last = NoCall
    /\ clock = 0
    /\ nreq = 0
    /\ calls = <<>>
    /\ waited = {}
    /\ nstarted = 0
    /\ twin = NoTwin
    /\ ctor = NoCtor
    /\ sg = NoGuard
    /\ io = NoIo

ComputeRate(checkTime) ==
    /\ LET r == computeRequestRate(th, checkTime)
       IN  /\ th' = r.self
           /\ last' = [elapsed |-> checkTime - th.lastCheck,
                       count |-> th.requestsPerCheckInterval,
                       ret |-> r.ret]
    /\ UNCHANGED <<clock, nreq, calls, waited, nstarted, twin, ctor, sg, io>>

RateNext == \E checkTime \in th.lastCheck..MaxTime : ComputeRate(checkTime)

RateSpec == RateInit /\ [][RateNext]_vars

\* ----------------------------------------------- createThrottle(options)
\* JavaScript values handed in as options: a type and, for a number, its
\* value (for a boolean 1 or 0).
Num(n) == [type |-> "number", val |-> n]
Bool(b) == [type |-> "boolean", val |-> IF b THEN 1 ELSE 0]
Str == [type |-> "string", val |-> 0]
Undef == [type |-> "undefined", val |-> 0]
Obj == [type |-> "object", val |-> 0]

\* validOptions accepting a queueTolerance of 0.
validOptionsZeroTolerance(o) ==
    /\ o.enabled.type = "boolean"
    /\ o.concurrency.type = "number"
    /\ o.concurrency.val > 0
    /\ o.requestRateCapacity.type = "number"
    /\ o.requestRateCapacity.val > 0
    /\ o.rateCheckInterval.type = "number"
    /\ o.rateCheckInterval.val > 0
    /\ o.queueTolerance.type = "number"
    /\ o.queueTolerance.val >= 0
    /\ o.log.type \in {"object", "undefined"}

\* The assertions at the head of the constructor, in their order: whether
\* all of them pass.
validOptions(o) ==
    /\ o.enabled.type = "boolean"
    /\ o.concurrency.type = "number"
    /\ o.concurrency.val > 0
    /\ o.requestRateCapacity.type = "number"
    /\ o.requestRateCapacity.val > 0
    /\ o.rateCheckInterval.type = "number"
    /\ o.rateCheckInterval.val > 0
    /\ o.queueTolerance.type = "number"
    /\ o.queueTolerance.val > 0
    /\ o.log.type \in {"object", "undefined"}

\* The options createThrottle is tried with.
RawValues == {Num(n) : n \in -1..2} \cup {Str, Undef}
RawOptions ==
    [enabled : {Bool(TRUE), Bool(FALSE), Str, Undef},
     concurrency : RawValues,
     requestRateCapacity : RawValues,
     rateCheckInterval : RawValues,
     queueTolerance : RawValues,
     log : {Obj, Undef, Str}]

\* The options as Throttle() stores them, the clock read at construction.
PlainOptions(o, now) ==
    [enabled |-> o.enabled.val = 1,
     concurrency |-> o.concurrency.val,
     requestRateCapacity |-> o.requestRateCapacity.val,
     rateCheckInterval |-> o.rateCheckInterval.val,
     queueTolerance |-> o.queueTolerance.val,
     now |-> now]

CtorInit ==
    /\ ctor \in [options : RawOptions, result : {"none"}]
    /\ th = NoTwin.th
    /\ clock = 0
    /\ nreq = 0
    /\ calls = <<>>
    /\ waited = {}
    /\ nstarted = 0
    /\ last = NoCall
    /\ twin = NoTwin
    /\ sg = NoGuard
    /\ io = NoIo

\* createThrottle(options): new Throttle(options) throws an AssertionError
\* or returns the throttle.
Construct ==
    /\ ctor.result = "none"
    /\ IF validOptions(ctor.options)
       THEN /\ th' = Throttle(PlainOptions(ctor.options, clock))
            /\ ctor' = [ctor EXCEPT !.result = "constructed"]
       ELSE /\ th' = th
            /\ ctor' = [ctor EXCEPT !.result = "AssertionError"]
    /\ UNCHANGED <<clock, nreq, calls, waited, nstarted, last, twin, sg, io>>

\* Requests reach a throttle that was constructed.
CtorWait ==
    /\ ctor.result = "constructed"
    /\ Wait

CtorNext == Construct \/ CtorWait \/ RunImmediate \/ Tick

CtorSpec == CtorInit /\ [][CtorNext]_vars

\* ------------------------------------------------ CheckStream (check_stream.js)
\* Timer delays are in ticks of the clock.  A byte is named by the chunk
\* that carried it and its offset in that chunk; crypto's hash is ideal:
\* two digests are equal exactly when the same bytes were hashed in the
\* same order.  The pair w = [sg, io] is the stream object and the event
\* loop around it (timers, immediates, listeners, the Writable's flags,
\* and a log of what was emitted, called back and returned).
MaxChunks == 2
MaxChunkLen == 2
MaxBytes == 2
MaxTimeout == 2
MaxGuardTime == 3

Bytes(k, len) == [i \in 1..len |-> <<k, i>>]

createHash == [data |-> <<>>, finalized |-> FALSE, ndigest |-> 0]
hashUpdateLast(h, bytes) == [h EXCEPT !.data = bytes]
hashUpdate(h, bytes) == [h EXCEPT !.data = @ \o bytes]
hashDigest(h) == [enc |-> "buffer", of |-> h.data]
toString(buf, encoding) == [buf EXCEPT !.enc = encoding]

setTimeout(e, now, delay) ==
    [e EXCEPT !.ntimers = @ + 1,
              !.timers = @ \cup {[id |-> e.ntimers + 1, at |-> now + delay]}]
clearTimeout(e, id) == [e EXCEPT !.timers = {t \in @ : t.id # id}]
setImmediate(e, f) == [e EXCEPT !.immediates = Append(@, f)]
counterAdd(e, name, n) == [e EXCEPT !.counters[name] = @ + n]

\* CheckStream.prototype.abandon
abandonKeepTimer(w) ==
    [sg |-> [w.sg EXCEPT !._dead = TRUE],
     io |-> [w.io EXCEPT
                !.listeners = @ \ {"error", "finish", "length_exceeded",
                                   "timeout"}]]
abandon(w) ==
    [sg |-> [w.sg EXCEPT !._dead = TRUE],
     io |-> [clearTimeout(w.io, w.sg.timer) EXCEPT
                !.listeners = @ \ {"error", "finish", "length_exceeded",
                                   "timeout"}]]

\* EventEmitter.emit: the signal is logged with the number of chunks
\* delivered so far, with whether abandon() had been called before, and
\* with what its listener, if any, did; react =
\* "abandon" is a listener that calls abandon() on the spot.
emit(w, name, arg, react) ==
    LET heard == name \in w.io.listeners
        w1 == [w EXCEPT !.io.signals =
                   Append(@, [name |-> name, arg |-> arg, heard |-> heard,
                              chunk |-> Len(w.io.delivered),
                              dead |-> w.sg._dead,
                              react |-> IF heard THEN react ELSE "unheard"])]
    IN  IF heard /\ react = "abandon" THEN abandon(w1) ELSE w1

\* onTimeoutHandler, bound to the stream: the caller's listener only notes
\* the signal.
onTimeoutHandlerAbandons(w) == abandon(emit(w, "timeout", 0, "none"))
onTimeoutHandler(w) == emit(w, "timeout", 0, "none")

\* if (!self._digest) self._digest = self.hash.digest('buffer'), as in
\* digest() and in the function deferred by onFinish; ndigest counts the
\* calls of hash.digest.
cachedDigestAlways(self) ==
    [self EXCEPT !._digest = <<hashDigest(self.hash)>>,
                 !.hash.finalized = TRUE, !.hash.ndigest = @ + 1]
cachedDigest(self) ==
    IF self._digest = <<>>
    THEN [self EXCEPT !._digest = <<hashDigest(self.hash)>>,
                      !.hash.finalized = TRUE, !.hash.ndigest = @ + 1]
    ELSE self

\* The function deferred by onFinish.
onFinishImmediate(w) ==
    LET sg1 == cachedDigest(w.sg)
    IN  emit([w EXCEPT !.sg = sg1], "done", 0, "none")

\* The listener registered with once('finish'): it defers the 'done' step.
onFinishAtOnce(w) ==
    onFinishImmediate([w EXCEPT !.io.listeners = @ \ {"finish"},
                                !.io.completed = TRUE])
onFinish(w) ==
    [w EXCEPT !.io = setImmediate([@ EXCEPT !.listeners = @ \ {"finish"},
                                            !.completed = TRUE],
                                  [kind |-> "done", chunk |-> 0])]

\* Writable emits 'finish' once, to whoever still listens.
finish(w) ==
    LET w1 == [w EXCEPT !.io.finished = TRUE]
    IN  IF "finish" \in w.io.listeners THEN onFinish(w1) ELSE w1

\* The callback the Writable hands to _write: the write is over; a stream
\* that is ending finishes after its last successful write.
cb(w, k, err, deferred) ==
    LET w1 == [w EXCEPT !.io.cbs = Append(@, [chunk |-> k, err |-> err,
                                              deferred |-> deferred,
                                              dead |-> w.sg._dead]),
                        !.io.writing = FALSE]
    IN  IF err = "null" /\ w1.io.ending /\ ~w1.io.finished
        THEN finish(w1) ELSE w1

\* The constructor.  this.inbound is read but never assigned, so the
\* test on line 74 sees undefined and the counter is always the sent one.
thisInbound == Undef
counterName(inbound) ==
    IF inbound.type = "boolean" /\ inbound.val = 1
    THEN "muskie_received_bytes" ELSE "muskie_sent_bytes"

validGuardOptions(opts) ==
    opts.collector.type = "object" /\ opts.inbound.type = "boolean"

CheckStream(opts, e, now) ==
    LET e1 == setTimeout(e, now, opts.timeout)
    IN  [sg |-> [bytes |-> 0, hash |-> createHash,
                 maxBytes |-> opts.maxBytes, timeout |-> opts.timeout,
                 timer |-> e1.ntimers, counter |-> counterName(thisInbound),
                 _dead |-> FALSE, _digest |-> <<>>],
         io |-> [e1 EXCEPT !.listeners = @ \cup {"finish"}]]

\* CheckStream.prototype.digest
digest(w, encoding) ==
    LET e1 == clearTimeout(w.io, w.sg.timer)
        sg1 == cachedDigest(w.sg)
        ret == IF encoding # "undefined"
               THEN toString(sg1._digest[1], encoding) ELSE sg1._digest[1]
    IN  [sg |-> sg1, io |-> e1, ret |-> ret]

\* The tests on lines 126 and 136, and the argument of the deferred
\* callback.
isDeadNever(self) == FALSE
isDead(self) == self._dead
overBudgetAtLimit(self) == self.bytes >= self.maxBytes
overBudget(self) == self.bytes > self.maxBytes
deferredErrorAlways(self) == "MaxSizeExceededError"
deferredError(self) == IF self._dead THEN "null" ELSE "MaxSizeExceededError"

\* CheckStream.prototype._write.  hash.update on a hash that digest() has
\* finalized throws: the exception leaves _write after clearTimeout, and
\* the Writable stays in its writing state.
_writeKeepTimer(w, chunk, now, react) ==
    IF isDead(w.sg) THEN cb(w, chunk.id, "null", FALSE)
    ELSE IF w.sg.hash.finalized THEN [w EXCEPT !.io.threw = TRUE]
    ELSE LET sg1 == [w.sg EXCEPT !.hash = hashUpdate(@, chunk.bytes),
                                 !.bytes = @ + Len(chunk.bytes)]
             e2 == counterAdd(w.io, sg1.counter, Len(chunk.bytes))
         IN  IF overBudget(sg1)
             THEN LET w3 == emit([sg |-> sg1, io |-> e2], "length_exceeded",
                                 sg1.bytes, react)
                  IN  [w3 EXCEPT !.io = setImmediate(@, [kind |-> "cb",
                                                    chunk |-> chunk.id])]
             ELSE LET e3 == setTimeout(e2, now, sg1.timeout)
                  IN  cb([sg |-> [sg1 EXCEPT !.timer = e3.ntimers],
                          io |-> e3], chunk.id, "null", FALSE)
_write(w, chunk, now, react) ==
    IF isDead(w.sg) THEN cb(w, chunk.id, "null", FALSE)
    ELSE LET e1 == clearTimeout(w.io, w.sg.timer)
         IN  IF w.sg.hash.finalized THEN [sg |-> w.sg,
                                          io |-> [e1 EXCEPT !.threw = TRUE]]
             ELSE LET sg1 == [w.sg EXCEPT !.hash = hashUpdate(@, chunk.bytes),
                                          !.bytes = @ + Len(chunk.bytes)]
                      e2 == counterAdd(e1, sg1.counter, Len(chunk.bytes))
                  IN  IF overBudget(sg1)
                      THEN LET w3 == emit([sg |-> sg1, io |-> e2],
                                          "length_exceeded", sg1.bytes, react)
                           IN  [w3 EXCEPT !.io = setImmediate(@,
                                   [kind |-> "cb", chunk |-> chunk.id])]
                      ELSE LET e3 == setTimeout(e2, now, sg1.timeout)
                           IN  cb([sg |-> [sg1 EXCEPT !.timer = e3.ntimers],
                                   io |-> e3], chunk.id, "null", FALSE)

\* The event loop before the stream exists: the caller will listen to the
\* three lifecycle signals and to 'error'.
NewIo ==
    [timers |-> {}, ntimers |-> 0, immediates |-> <<>>,
     listeners |-> {"timeout", "length_exceeded", "done", "error"},
     signals |-> <<>>, cbs |-> <<>>,
     returned |-> [encoding |-> "none", ret |-> <<>>, completed |-> FALSE],
     repeated |-> "no",
     delivered |-> <<>>, fed |-> <<>>, late |-> FALSE,
     writing |-> FALSE, ending |-> FALSE, finished |-> FALSE,
     completed |-> FALSE, threw |-> FALSE,
     counters |-> [muskie_received_bytes |-> 0, muskie_sent_bytes |-> 0],
     lastActivity |-> 0, idleTimeouts |-> 0]

\* Streams of every budget and timeout, with and without a collector; the
\* constructor tests opts.inbound and reads it nowhere else, so these
\* streams are all outbound and the two directions are compared apart.
GuardOptions ==
    [maxBytes : 1..MaxBytes, timeout : 1..MaxTimeout,
     inbound : {Bool(FALSE)}, collector : {Obj, Undef}]
InboundOptions ==
    [maxBytes : {MaxBytes}, timeout : {MaxTimeout},
     inbound : {Bool(TRUE), Bool(FALSE)}, collector : {Obj}]

GuardInitWith(options) ==
    /\ ctor \in [options : options, result : {"none"}]
    /\ sg = NoGuard
    /\ io = NewIo
    /\ clock = 0
    /\ th = NoTwin.th
    /\ nreq = 0
    /\ calls = <<>>
    /\ waited = {}
    /\ nstarted = 0
    /\ last = NoCall
    /\ twin = NoTwin

GuardInit == GuardInitWith(GuardOptions)
InboundInit == GuardInitWith(InboundOptions)

\* new CheckStream(opts): an AssertionError, or the stream with its first
\* timer armed.
NewCheckStream ==
    /\ ctor.result = "none"
    /\ IF validGuardOptions(ctor.options)
       THEN LET w == CheckStream(ctor.options, io, clock)
            IN  /\ sg' = w.sg
                /\ io' = w.io
                /\ ctor' = [ctor EXCEPT !.result = "constructed"]
       ELSE /\ ctor' = [ctor EXCEPT !.result = "AssertionError"]
            /\ UNCHANGED <<sg, io>>
    /\ UNCHANGED <<th, clock, nreq, calls, waited, nstarted, last, twin>>

\* The Writable hands the next chunk, of one byte or more, to _write when
\* no write is under way and end() has not been called.
Write(len, react) ==
    /\ ctor.result = "constructed"
    /\ ~io.writing /\ ~io.ending
    /\ Len(io.delivered) < MaxChunks
    /\ LET k == Len(io.delivered) + 1
           was == IF sg._dead THEN "dead"
                  ELSE IF sg.hash.finalized THEN "finalized" ELSE "running"
           e == [io EXCEPT !.delivered = Append(@, [len |-> len, was |-> was]),
                           !.writing = TRUE,
                           !.fed = @ \o Bytes(k, len),
                           !.late = @ \/ clock - io.lastActivity >= sg.timeout,
                           !.lastActivity = clock, !.idleTimeouts = 0]
           w == _write([sg |-> sg, io |-> e],
                       [id |-> k, bytes |-> Bytes(k, len)], clock, react)
       IN  sg' = w.sg /\ io' = w.io
    /\ UNCHANGED <<th, clock, nreq, calls, waited, nstarted, last, twin, ctor>>

\* end(): the stream finishes at once, or after the write under way.
End ==
    /\ ctor.result = "constructed"
    /\ ~io.ending
    /\ LET w == [sg |-> sg, io |-> [io EXCEPT !.ending = TRUE]]
           w1 == IF io.writing THEN w ELSE finish(w)
       IN  sg' = w1.sg /\ io' = w1.io
    /\ UNCHANGED <<th, clock, nreq, calls, waited, nstarted, last, twin, ctor>>

\* The event loop runs the oldest function given to setImmediate.
GuardImmediate ==
    /\ io.immediates # <<>>
    /\ LET f == Head(io.immediates)
           w == [sg |-> sg, io |-> [io EXCEPT !.immediates = Tail(@)]]
           w1 == IF f.kind = "cb"
                 THEN cb(w, f.chunk, deferredError(sg), TRUE)
                 ELSE onFinishImmediate(w)
       IN  sg' = w1.sg /\ io' = w1.io
    /\ UNCHANGED <<th, clock, nreq, calls, waited, nstarted, last, twin, ctor>>

\* A timer that is due runs onTimeoutHandler.
TimerFire ==
    /\ \E t \in io.timers :
          /\ t.at <= clock
          /\ LET w == onTimeoutHandler(
                          [sg |-> sg,
                           io |-> [io EXCEPT !.timers = @ \ {t},
                                             !.idleTimeouts = @ + 1]])
             IN  sg' = w.sg /\ io' = w.io
    /\ UNCHANGED <<th, clock, nreq, calls, waited, nstarted, last, twin, ctor>>

\* The caller asks for the digest, as a Buffer or in an encoding, any
\* number of times: what the latest call returned is kept, and, when it
\* repeated the call before it after the stream had completed, whether
\* the two returned the same.
Digest(encoding) ==
    /\ ctor.result = "constructed"
    /\ LET d == digest([sg |-> sg, io |-> io], encoding)
           again == /\ io.returned.completed
                    /\ io.returned.encoding = encoding
       IN  /\ sg' = d.sg
           /\ io' = [d.io EXCEPT !.returned =
                        [encoding |-> encoding, ret |-> <<d.ret>>,
                         completed |-> io.completed],
                                 !.repeated =
                                     IF ~again THEN "no"
                                     ELSE IF <<d.ret>> = io.returned.ret
                                          THEN "same" ELSE "different"]
    /\ UNCHANGED <<th, clock, nreq, calls, waited, nstarted, last, twin, ctor>>

\* The caller gives the stream up, any number of times.
Abandon ==
    /\ ctor.result = "constructed"
    /\ LET w == abandon([sg |-> sg, io |-> io])
       IN  sg' = w.sg /\ io' = w.io
    /\ UNCHANGED <<th, clock, nreq, calls, waited, nstarted, last, twin, ctor>>

\* Time, counted from the construction of the stream, passes once the
\* event loop has nothing due: no immediate is waiting and no live timer
\* has reached its time.
GuardTick ==
    /\ ctor.result = "constructed"
    /\ clock < MaxGuardTime
    /\ io.immediates = <<>>
    /\ \A t \in io.timers : t.at > clock
    /\ clock' = clock + 1
    /\ UNCHANGED <<th, nreq, calls, waited, nstarted, last, twin, ctor, sg, io>>

GuardNext ==
    \/ NewCheckStream
    \/ \E len \in 1..MaxChunkLen, react \in {"none", "abandon"} :
          Write(len, react)
    \/ End
    \/ GuardImmediate
    \/ TimerFire
    \/ \E encoding \in {"undefined", "hex"} : Digest(encoding)
    \/ Abandon
    \/ GuardTick

GuardSpec == GuardInit /\ [][GuardNext]_vars
InboundSpec == InboundInit /\ [][GuardNext]_vars

GuardTypeOK == ctor.result \in {"none", "constructed", "AssertionError"}

\* ================================================================ claims
Range(f) == {f[i] : i \in DOMAIN f}
InQueue(r) ==
    r \in Range(th.requestQueue.queued) \cup Range(th.requestQueue.pending)
Started(r) == \E i \in DOMAIN calls : calls[i] = Call(r, "proceed")
Rejected(r) == \E i \in DOMAIN calls : calls[i] = Call(r, "ThrottledError")
Drained == th.requestQueue.queued = <<>> /\ th.requestQueue.pending = <<>>

\* C1: an enabled throttle never has more than `concurrency` work items
\* running at once, whatever the pattern of wait() calls.
RunningAtMostConcurrency ==
    th.enabled => npending(th.requestQueue) <= th.concurrency

\* A burst beyond concurrency: every slot taken and two more items waiting.
BurstBeyondConcurrency ==
    /\ th.enabled
    /\ npending(th.requestQueue) = th.concurrency
    /\ length(th.requestQueue) >= 2

\* C2: with enabled=true a wait() call is rejected exactly when, after its
\* own rate update, the rate exceeds the capacity and queue.length() >=
\* queueTolerance; the rejected call's callback is invoked once, with a
\* ThrottledError, and its work is never queued or run.
RejectedExactlyWhenOverloaded ==
    th.enabled =>
        /\ last.req > 0 =>
              /\ (last.next = "ThrottledError")
                    <=> (last.rateOver /\ last.qlen >= th.queueTolerance)
              /\ last.next = "ThrottledError" => Rejected(last.req)
        /\ \A i \in DOMAIN calls :
              calls[i].how = "ThrottledError" =>
                  /\ \A j \in DOMAIN calls :
                        calls[j].req = calls[i].req => j = i
                  /\ ~InQueue(calls[i].req)

\* A request was rejected and everything admitted has since been run.
RejectedAndDrained ==
    /\ th.enabled
    /\ \E r \in 1..nreq : Rejected(r)
    /\ Drained
    /\ Len(calls) = nreq

\* C3: a wait() call that finds the rate at or below the capacity at its
\* admission decision is not rejected, whatever the queue depth and mode.
NotRejectedWithinCapacity ==
    (last.req > 0 /\ ~last.rateOver) => last.next # "ThrottledError"

\* A measured, non-zero rate within capacity, a queue at its tolerance, and
\* the call admitted.
AdmittedWithDeepQueue ==
    /\ th.enabled
    /\ last.req > 0
    /\ last.next = "none"
    /\ last.qlen >= th.queueTolerance
    /\ th.mostRecentRequestRate.num > 0
    /\ ~last.rateOver

\* C4: with enabled=true, a wait() call at whose admission decision the rate
\* exceeds the capacity and queue.length() >= queueTolerance is rejected and
\* admits nothing: while both conditions hold no call is admitted.
RejectsWhileOverloaded ==
    [][(/\ th.enabled
        /\ nreq' = nreq + 1
        /\ RateGT(th'.mostRecentRequestRate, th.requestRateCapacity)
        /\ length(th.requestQueue) >= th.queueTolerance)
       => (/\ last'.next = "ThrottledError"
           /\ th'.requestQueue = th.requestQueue)]_vars

\* Two wait() calls in a row were rejected.
TwoRejectionsInARow ==
    /\ last.req > 1
    /\ last.next = "ThrottledError"
    /\ Rejected(last.req - 1)

\* C5: in the overload scenario a wait() call that finds one item running
\* and two queued (the 4th simultaneous request) is rejected.
E2EFourthRejected ==
    (last.req >= 4 /\ last.running = 1 /\ last.qlen >= 2)
        => last.next = "ThrottledError"

\* C6: with enabled=false every wait() call invokes proceed before it
\* returns, pushes nothing onto the queue and never rejects.
PassiveProceedsAtOnce ==
    ~th.enabled =>
        /\ Drained
        /\ Len(calls) = nreq
        /\ \A i \in DOMAIN calls : calls[i] = Call(i, "proceed")

\* Passive mode with a measured rate above the capacity.
PassiveUnderOverload ==
    /\ ~th.enabled
    /\ nreq >= 2
    /\ last.rateOver

\* C7: whenever the enabled throttle rejects a call, its passive twin (same
\* options, same calls, same clock) fires request_throttled for that call.
PassiveObservesThrottling ==
    last.next = "ThrottledError" => twin.throttled

\* C8: every work item pushed onto the queue is eventually started.
EveryAdmittedEventuallyStarts ==
    \A r \in 1..MaxReq : InQueue(r) ~> Started(r)

\* Three requests were admitted, two of them had to wait, all have started.
AllAdmittedStarted ==
    /\ th.enabled
    /\ Drained
    /\ nstarted >= 2
    /\ \A r \in 1..nreq : Started(r)

\* C9: the callback of a wait() call is invoked at most once: no work item
\* is started twice and no request is both rejected and proceeded.
CallbackAtMostOnce ==
    \A i, j \in DOMAIN calls : calls[i].req = calls[j].req => i = j

\* Rejections and queued starts in one run, nothing left to run.
RejectedAndStarted ==
    /\ \E r \in 1..nreq : Rejected(r)
    /\ \E r \in 1..nreq : Started(r) /\ \E q \in 1..(r - 1) : Rejected(q)
    /\ Drained

\* C10: among the items that had to wait, an item starts only when no item
\* submitted before it is still waiting to start.
FifoAmongWaiting ==
    [][\A b \in waited :
          b \notin waited' => \A a \in waited : a >= b]_vars

\* Two items that had to wait have started while a third still waits.
TwoWaitersStarted ==
    /\ nstarted >= 2
    /\ waited # {}

\* C11: a wait() call made when the time since lastCheck exceeds
\* rateCheckInterval, whatever the elapsed time, recomputes the rate.
RecomputesWhenIntervalElapsed ==
    [][(nreq' = nreq + 1 /\ clock - th.lastCheck > th.rateCheckInterval)
       => last'.checked]_vars

\* C12: a recomputation sets the rate to the arrivals counted since the
\* previous one, the triggering arrival included, divided by the whole time
\* in seconds since lastCheck: rate * elapsed = count.
RateIsCountOverElapsed ==
    [][(nreq' = nreq + 1 /\ last'.checked)
       => th'.mostRecentRequestRate.num * (clock' - th.lastCheck)
            = (th.requestsPerCheckInterval + 1) * TicksPerSec
                * th'.mostRecentRequestRate.den]_vars

\* C13: requestsPerCheckInterval is 0 at construction and right after a
\* recomputation, and every wait() call that does not recompute, rejected
\* ones included, adds exactly one; nothing else changes it.
CounterCountsArrivals ==
    /\ th.requestsPerCheckInterval = 0
    /\ [][/\ nreq' = nreq + 1 =>
                th'.requestsPerCheckInterval =
                    IF last'.checked THEN 0
                    ELSE th.requestsPerCheckInterval + 1
          /\ nreq' = nreq =>
                th'.requestsPerCheckInterval = th.requestsPerCheckInterval
         ]_vars

\* After a recomputation, a rejected call that did not recompute was counted.
RejectedCallCounted ==
    /\ last.next = "ThrottledError"
    /\ ~last.checked
    /\ th.mostRecentRequestRate.num > 0
    /\ th.requestsPerCheckInterval >= 1

\* C14: createThrottle fails with an assertion error whenever concurrency,
\* requestRateCapacity, rateCheckInterval or queueTolerance is not a positive
\* number or enabled is not a boolean, and succeeds for every valid
\* configuration (a logger, when given, being an object).
PositiveNumber(v) == v.type = "number" /\ v.val > 0
ConstructionValidates ==
    LET o == ctor.options
        valid == /\ o.enabled.type = "boolean"
                 /\ PositiveNumber(o.concurrency)
                 /\ PositiveNumber(o.requestRateCapacity)
                 /\ PositiveNumber(o.rateCheckInterval)
                 /\ PositiveNumber(o.queueTolerance)
    IN  ctor.result # "none" =>
            /\ ~valid => ctor.result = "AssertionError"
            /\ (valid /\ o.log.type # "string") => ctor.result = "constructed"
            /\ ctor.result = "constructed" => th.enabled = (o.enabled.val = 1)

\* Construction failed on a queueTolerance of 0 alone.
ZeroToleranceRefused ==
    /\ ctor.result = "AssertionError"
    /\ ctor.options.queueTolerance = Num(0)
    /\ validOptionsZeroTolerance(ctor.options)

\* Bytes carried by the first k chunks, and the length_exceeded signals
\* emitted while chunk k was the latest one delivered.
RECURSIVE Cumulative(_)
Cumulative(k) == IF k = 0 THEN 0 ELSE Cumulative(k - 1) + io.delivered[k].len
LengthExceeded(k) ==
    {i \in DOMAIN io.signals :
        io.signals[i].name = "length_exceeded" /\ io.signals[i].chunk = k}
Signals(name) == {i \in DOMAIN io.signals : io.signals[i].name = name}

\* C15: for a chunk delivered to a running guard (not abandoned, its hash
\* not yet finalized by digest()), no length_exceeded is emitted when the
\* cumulative byte count after it is at most maxBytes, and when it is the
\* first to take the count above maxBytes exactly one length_exceeded is
\* emitted for it, carrying the cumulative count.
LengthExceededAtFirstExcess ==
    \A k \in DOMAIN io.delivered :
        io.delivered[k].was = "running" =>
            /\ Cumulative(k) <= sg.maxBytes => LengthExceeded(k) = {}
            /\ (Cumulative(k - 1) <= sg.maxBytes
                    /\ Cumulative(k) > sg.maxBytes) =>
                  /\ Cardinality(LengthExceeded(k)) = 1
                  /\ \A i \in LengthExceeded(k) :
                        io.signals[i].arg = Cumulative(k)

\* Two chunks: the first fills the budget exactly and is not signalled, the
\* second adds one byte and is.
ExactBudgetThenOneMore ==
    /\ Len(io.delivered) = 2
    /\ io.delivered[1].was = "running" /\ io.delivered[2].was = "running"
    /\ Cumulative(1) = sg.maxBytes
    /\ Cumulative(2) = sg.maxBytes + 1
    /\ Signals("length_exceeded") = LengthExceeded(2)
    /\ LengthExceeded(2) # {}

\* C16: once a chunk delivered to a running guard has taken the byte count
\* above maxBytes, length_exceeded has been emitted exactly once in all, and
\* no later chunk is hashed, counted or signalled.
ExceedingTerminatesStream ==
    \A j \in DOMAIN io.delivered :
        (io.delivered[j].was = "running" /\ Cumulative(j - 1) <= sg.maxBytes
            /\ Cumulative(j) > sg.maxBytes) =>
            /\ Cardinality(Signals("length_exceeded")) = 1
            /\ sg.bytes = Cumulative(j)
            /\ io.counters[sg.counter] = Cumulative(j)
            /\ Len(sg.hash.data) = Cumulative(j)

\* C17: a chunk that a running guard counted above maxBytes is completed
\* exactly once, by the deferred function and not inside _write: until
\* then its completion is pending, and it carries a MaxSizeExceededError
\* unless abandon() had been called by the time it ran, when it carries no
\* error.
Completions(k) == {i \in DOMAIN io.cbs : io.cbs[i].chunk = k}
PendingCompletions(k) ==
    {i \in DOMAIN io.immediates :
        io.immediates[i].kind = "cb" /\ io.immediates[i].chunk = k}
DeferredCompletionOnExcess ==
    \A k \in DOMAIN io.delivered :
        (io.delivered[k].was = "running" /\ Cumulative(k) > sg.maxBytes) =>
            /\ Cardinality(Completions(k))
                  + Cardinality(PendingCompletions(k)) = 1
            /\ \A i \in Completions(k) :
                  /\ io.cbs[i].deferred
                  /\ io.cbs[i].err = IF io.cbs[i].dead THEN "null"
                                     ELSE "MaxSizeExceededError"

\* The length_exceeded listener called abandon(), and the chunk was then
\* completed without error.
AbandonedInListenerNoError ==
    \E i \in DOMAIN io.cbs :
        /\ io.cbs[i].deferred /\ io.cbs[i].err = "null"
        /\ \E j \in LengthExceeded(io.cbs[i].chunk) :
              io.signals[j].react = "abandon"

\* C18: as long as every chunk so far arrived less than timeout after the
\* chunk before it (the first less than timeout after construction) and
\* less than timeout has passed since the latest one, no timeout signal has
\* been emitted.
NoTimeoutWhileChunksInTime ==
    (ctor.result = "constructed" /\ ~io.late
        /\ clock - io.lastActivity < sg.timeout) =>
        Signals("timeout") = {}

\* Two chunks in time carried the stream past the deadline of the timer
\* armed at construction, with a fresh timer armed and no timeout emitted.
ChunksOutliveFirstTimer ==
    /\ ctor.result = "constructed"
    /\ Len(io.delivered) = 2
    /\ \A k \in DOMAIN io.delivered : io.delivered[k].was = "running"
    /\ ~io.late
    /\ clock > sg.timeout
    /\ clock - io.lastActivity < sg.timeout
    /\ \E t \in io.timers : t.id = sg.timer /\ t.at > clock
    /\ Signals("timeout") = {}

\* C19: for a guard that has not been abandoned (and whose stream has
\* neither ended nor exceeded its budget), once more than timeout has
\* passed since the latest chunk, or since construction when there was
\* none, a timeout signal has been emitted in that gap.
IdleGapYieldsTimeout ==
    (ctor.result = "constructed" /\ ~sg._dead /\ ~io.ending
        /\ sg.bytes <= sg.maxBytes
        /\ clock - io.lastActivity > sg.timeout) =>
        io.idleTimeouts >= 1

\* C20: a digest() call made after the stream has completed returns the
\* hash of all the bytes fed to the guard, in the encoding asked for, and
\* a call that repeats the one before it returns the same value.
DigestOf(bytes, encoding) ==
    LET buf == hashDigest(hashUpdate(createHash, bytes))
    IN  IF encoding = "undefined" THEN buf ELSE toString(buf, encoding)
DigestIdempotentAfterCompletion ==
    /\ io.repeated # "different"
    /\ io.returned.completed =>
          io.returned.ret = <<DigestOf(io.fed, io.returned.encoding)>>

\* After two chunks and the end of the stream, digest('hex') was called
\* twice running and returned the same text.
DigestedTwiceAfterDone ==
    /\ io.repeated = "same"
    /\ io.returned.encoding = "hex"
    /\ Len(io.delivered) = 2 /\ Len(io.fed) >= 2
    /\ Signals("done") # {}

\* Bytes carried by the chunks among the first k that reached a running
\* guard.
RECURSIVE CumulativeRunning(_)
CumulativeRunning(k) ==
    IF k = 0 THEN 0
    ELSE CumulativeRunning(k - 1)
            + IF io.delivered[k].was = "running" THEN io.delivered[k].len
              ELSE 0

\* C21: a chunk delivered after abandon() changes nothing: its bytes are
\* not in the hash, bytes and the throughput counter count only the chunks
\* delivered before, no timer is armed, the chunk is completed at once and
\* without error, and no length_exceeded or timeout is emitted for it.
ChunkAfterAbandonIsNoOp ==
    ctor.result = "constructed" =>
        /\ sg._dead => io.timers = {}
        /\ sg.bytes = CumulativeRunning(Len(io.delivered))
        /\ io.counters[sg.counter] = sg.bytes
        /\ Len(sg.hash.data) = sg.bytes
        /\ \A k \in DOMAIN io.delivered :
              io.delivered[k].was = "dead" =>
                 /\ Range(Bytes(k, io.delivered[k].len))
                        \cap Range(sg.hash.data) = {}
                 /\ Cardinality(Completions(k)) = 1
                 /\ \A i \in Completions(k) :
                       io.cbs[i].err = "null" /\ ~io.cbs[i].deferred
                 /\ \A i \in DOMAIN io.signals :
                       io.signals[i].chunk = k =>
                          io.signals[i].name
                             \notin {"length_exceeded", "timeout"}

\* A chunk was hashed, the guard was abandoned, a further chunk larger
\* than what was left of the budget was delivered and completed, and time
\* went by.
ChunkDeliveredAfterAbandon ==
    /\ Len(io.delivered) = 2
    /\ io.delivered[1].was = "running" /\ io.delivered[2].was = "dead"
    /\ Cumulative(2) > sg.maxBytes
    /\ sg.bytes = Cumulative(1)
    /\ Completions(2) # {}
    /\ clock > io.lastActivity

\* C22: no timeout, length_exceeded or done signal reaches a listener once
\* abandon() has been called.
NoSignalAfterAbandon ==
    \A i \in DOMAIN io.signals :
        (io.signals[i].name \in {"timeout", "length_exceeded", "done"}
            /\ io.signals[i].dead) => ~io.signals[i].heard

\* C23: while the guard is running, that is constructed, not abandoned and
\* its stream not finished, exactly one timer is armed.
OneTimerWhileRunning ==
    (ctor.result = "constructed" /\ ~sg._dead /\ ~io.finished) =>
        Cardinality(io.timers) = 1

\* C24: no timeout signal is emitted after done.
NoTimeoutAfterDone ==
    \A i, j \in DOMAIN io.signals :
        (i < j /\ io.signals[i].name = "done") =>
            io.signals[j].name # "timeout"

\* C25: a guard constructed as inbound adds the length of every chunk it
\* counts to the received-bytes counter and nothing to the sent-bytes
\* counter, and a guard constructed as outbound the converse.
CounterFollowsDirection ==
    ctor.result = "constructed" =>
        IF ctor.options.inbound = Bool(TRUE)
        THEN /\ io.counters.muskie_received_bytes = sg.bytes
             /\ io.counters.muskie_sent_bytes = 0
        ELSE /\ io.counters.muskie_sent_bytes = sg.bytes
             /\ io.counters.muskie_received_bytes = 0

\* C26: a guard whose options are valid but for a missing collector is
\* constructed: construction does not end in an AssertionError.
ConstructsWithoutCollector ==
    (ctor.options.collector = Undef /\ ctor.result # "none") =>
        ctor.result = "constructed"

\* C27: computeRequestRate returns 0 when no time has elapsed since
\* lastCheck, and the divisor of every rate it returns is strictly
\* positive.
NeverDividesByZero ==
    last # NoCall =>
        /\ last.elapsed = 0 => last.ret = ZeroRate
        /\ last.ret.den > 0

\* Called with requests counted and no time elapsed, it returned 0.
ZeroElapsedGivesZero ==
    /\ last # NoCall
    /\ last.elapsed = 0 /\ last.count > 0 /\ last.ret = ZeroRate

\* C28: a wait() call made when no more than rateCheckInterval has elapsed
\* since lastCheck does not recompute; a call that does not recompute
\* leaves mostRecentRequestRate and lastCheck alone and adds one to the
\* counter; a call that recomputes resets the counter and moves lastCheck
\* to the time of the recomputation.
RecomputeFrame ==
    [][nreq' = nreq + 1 =>
          /\ clock - th.lastCheck <= th.rateCheckInterval => ~last'.checked
          /\ ~last'.checked =>
                /\ th'.mostRecentRequestRate = th.mostRecentRequestRate
                /\ th'.lastCheck = th.lastCheck
                /\ th'.requestsPerCheckInterval
                      = th.requestsPerCheckInterval + 1
          /\ last'.checked =>
                /\ th'.requestsPerCheckInterval = 0
                /\ th'.lastCheck = clock']_vars

\* C29: the admission test of every wait() call succeeds exactly when the
\* rate exceeds the capacity and the entries waiting plus the entries
\* running number at least queueTolerance.
ToleranceCountsRunning ==
    last.req > 0 =>
        (last.throttled
            <=> (last.rateOver
                    /\ last.qlen + last.running >= th.queueTolerance))

\* C29, amended: the admission test of every wait() call, in either mode,
\* succeeds exactly when the rate exceeds the capacity and the entries still
\* waiting for a slot number at least queueTolerance; running entries are
\* not counted.
ToleranceCountsWaiting ==
    last.req > 0 =>
        (last.throttled
            <=> (last.rateOver /\ last.qlen >= th.queueTolerance))

\* The rate was over the capacity and the entries waiting and running
\* together had reached the tolerance, those waiting alone had not, and the
\* admission test failed.
RunningNotCounted ==
    /\ last.req > 0
    /\ last.rateOver
    /\ last.running > 0
    /\ last.qlen + last.running >= th.queueTolerance
    /\ last.qlen < th.queueTolerance
    /\ ~last.throttled

\* Position of a step in the order of a wait() call, 0 when it did not happen.
StepAt(order, step) ==
    IF \E i \in DOMAIN order : order[i] = step
    THEN CHOOSE i \in DOMAIN order : order[i] = step
    ELSE 0

\* C30: after wait() returns, the request carries a start timestamp written by
\* that call exactly when the request was not rejected; a rejected request's
\* timestamp slot is not written, and for an admitted request the timestamp is
\* written before the request is queued or proceed is invoked.
StartTimeIffAdmitted ==
    last.req > 0 =>
        /\ last.startTime <=> last.next # "ThrottledError"
        /\ last.startTime <=> StepAt(last.order, "throttleStartTime") > 0
        /\ last.next = "ThrottledError" =>
               StepAt(last.order, "throttleStartTime") = 0
        /\ last.next # "ThrottledError" =>
               \A step \in {"next", "push"} :
                   StepAt(last.order, step) > 0 =>
                       StepAt(last.order, "throttleStartTime")
                           < StepAt(last.order, step)

\* A request was rejected with its slot untouched, after an earlier one had been
\* admitted with its timestamp and has since proceeded.
RejectedUnstampedAfterStamped ==
    /\ last.req > 1
    /\ last.next = "ThrottledError"
    /\ ~last.startTime
    /\ \E i \in DOMAIN calls : calls[i].how = "proceed"

\* C31: abandon() can be called in every state of a constructed guard and
\* any number of times: the call leaves the guard abandoned with no timer
\* armed, a second call changes nothing, and a guard that has been abandoned
\* is in a state that a further call leaves as it is.
AbandonIdempotentAndTotal ==
    ctor.result = "constructed" =>
        LET w == [sg |-> sg, io |-> io]
            a == abandon(w)
        IN  /\ a.sg._dead
            /\ a.io.timers = {}
            /\ abandon(a) = a
            /\ sg._dead => a = w

\* The guard was abandoned after its timer had fired and a later chunk had
\* exceeded the budget, and the stream has since been ended.
AbandonedAfterTimeoutAndExcess ==
    /\ ctor.result = "constructed"
    /\ sg._dead
    /\ io.ending
    /\ \E i, j \in DOMAIN io.signals :
          /\ i < j
          /\ io.signals[i].name = "timeout" /\ ~io.signals[i].dead
          /\ io.signals[j].name = "length_exceeded" /\ ~io.signals[j].dead
          /\ io.signals[j].react = "none"

\* C32: the firing of the idle timer emits timeout and leaves the stream
\* object (bytes, hash, _dead, _digest) as it was; and a chunk delivered after
\* a timeout to a guard that is neither abandoned nor finalized is hashed,
\* counted and tested against maxBytes: its bytes are appended to the hash,
\* bytes and the counter grow by its length, and length_exceeded is emitted
\* for it exactly when bytes is then above maxBytes.
TimeoutIsAdvisory ==
    [][/\ (/\ Len(io'.signals) = Len(io.signals) + 1
           /\ io'.signals[Len(io'.signals)].name = "timeout")
          => sg' = sg
       /\ (/\ Len(io'.delivered) = Len(io.delivered) + 1
           /\ Signals("timeout") # {}
           /\ ~sg._dead /\ ~sg.hash.finalized)
          => LET k == Len(io'.delivered)
                 len == io'.delivered[k].len
             IN  /\ sg'.hash.data = sg.hash.data \o Bytes(k, len)
                 /\ sg'.bytes = sg.bytes + len
                 /\ io'.counters[sg.counter] = io.counters[sg.counter] + len
                 /\ sg'.bytes > sg.maxBytes
                       <=> (/\ Len(io'.signals) = Len(io.signals) + 1
                            /\ io'.signals[Len(io'.signals)]
                                  = [name |-> "length_exceeded",
                                     arg |-> sg'.bytes,
                                     heard |-> "length_exceeded"
                                                   \in io.listeners,
                                     chunk |-> k, dead |-> FALSE,
                                     react |-> io'.signals[Len(io'.signals)]
                                                  .react])]_vars

\* After a timeout that no abandon() followed, a first chunk within the budget
\* and a second one above it were hashed and counted, and the second was
\* answered with length_exceeded.
ChunksHashedAfterTimeout ==
    /\ Len(io.delivered) = 2
    /\ \E i \in Signals("timeout") : io.signals[i].chunk = 0
    /\ io.delivered[1].was = "running" /\ io.delivered[2].was = "running"
    /\ sg.hash.data = io.fed
    /\ sg.bytes = Cumulative(2)
    /\ Cumulative(1) <= sg.maxBytes
    /\ LengthExceeded(2) # {}

\* C33: hash.digest is called at most once on a guard, whatever the order of
\* digest() calls and the function deferred by the finish handler: the first
\* of them stores the digest of the bytes hashed, and what the latest
\* digest() call returned is that stored value, encoded as asked.
HashFinalizedAtMostOnce ==
    ctor.result = "constructed" =>
        /\ sg.hash.ndigest <= 1
        /\ sg.hash.ndigest = 1 <=> sg._digest # <<>>
        /\ sg._digest # <<>> => sg._digest = <<hashDigest(sg.hash)>>
        /\ io.returned.ret # <<>> =>
              io.returned.ret
                 = <<IF io.returned.encoding = "undefined" THEN sg._digest[1]
                     ELSE toString(sg._digest[1], io.returned.encoding)>>

\* digest() finalized the hash of a chunk before the stream ended, and the
\* function deferred by the finish handler, which ran later, found the digest
\* stored and emitted done.
DigestThenDeferredFinish ==
    /\ Signals("done") # {}
    /\ Len(io.delivered) > 0
    /\ io.returned.ret # <<>>
    /\ ~io.returned.completed
    /\ sg.hash.ndigest = 1

\* C34: digest() may be called while the guard is running: it returns the
\* hash of the bytes seen so far, and a chunk delivered afterwards to a guard
\* that is not abandoned is processed without _write throwing: its bytes are
\* counted and its write is completed or its completion is deferred.
ChunkAfterDigestIsProcessed ==
    ctor.result = "constructed" =>
        /\ ~io.threw
        /\ \A k \in DOMAIN io.delivered :
              io.delivered[k].was = "finalized" =>
                 /\ sg.bytes >= io.delivered[k].len
                 /\ Cardinality(Completions(k))
                       + Cardinality(PendingCompletions(k)) = 1

PendingDone == {i \in DOMAIN io.immediates : io.immediates[i].kind = "done"}
DoneFollowsFinish ==
    /\ Cardinality(Signals("done")) <= 1
    /\ ~io.finished => Signals("done") = {} /\ PendingDone = {}
    /\ (io.finished /\ io.completed) =>
          Cardinality(Signals("done")) + Cardinality(PendingDone) = 1
    /\ (io.finished /\ ~io.completed) =>
          sg._dead /\ Signals("done") = {} /\ PendingDone = {}
    /\ Signals("done") # {} => sg._digest # <<>> /\ sg.hash.finalized

\* C35: when the stream finishes and abandon() had not been called before,
\* done is emitted exactly once (it is emitted or waits in the immediate queue,
\* and never twice), not in the step in which the stream finishes but in a
\* later one, and the digest is stored when it is emitted; when abandon() was
\* called before the stream finished, done is neither emitted nor waiting.
DoneOnceAfterFinish ==
    [][/\ DoneFollowsFinish'
       /\ (~io.finished /\ io'.finished) => Signals("done")' = {}]_vars

\* Two chunks were written, the stream ended and finished without abandon(),
\* and done has been emitted with the digest of both chunks stored.
DoneAfterTwoChunks ==
    /\ Len(io.delivered) = 2
    /\ io.finished /\ io.completed
    /\ ~sg._dead
    /\ Cardinality(Signals("done")) = 1
    /\ sg._digest = <<hashDigest(hashUpdate(createHash, io.fed))>>

\* C36: the admission queue has no running and no waiting entry at the start
\* and at the end of every wait() call, in both modes, and length() is below
\* queueTolerance at every admission decision.
QueueEmptyAroundWait ==
    [][nreq' = nreq + 1 =>
          /\ Drained
          /\ Drained'
          /\ last'.qlen < th.queueTolerance]_vars

\* C36, amended: in passive mode the queue never holds an entry; in enabled
\* mode a request is in the queue, running or waiting, from the end of the
\* wait() call that admitted it until next() is invoked for it, and it leaves
\* the queue in that same step.
QueueHoldsAdmittedUntilProceed ==
    /\ ~th.enabled => Drained
    /\ \A r \in 1..nreq :
          InQueue(r) <=> (th.enabled /\ ~Rejected(r) /\ ~Started(r))

\* An enabled throttle took an admission decision while entries were running
\* and at least queueTolerance entries were waiting.
ToleranceReachedAtDecision ==
    /\ th.enabled
    /\ last.req > 0
    /\ last.running > 0
    /\ last.qlen >= th.queueTolerance
    /\ ~Drained

RejectedArrivalIsCounted ==
    [][(nreq' = nreq + 1 /\ last'.next = "ThrottledError") =>
          LET counted == [th EXCEPT !.requestsPerCheckInterval = @ + 1]
          IN  IF last'.checked
              THEN /\ th'.requestsPerCheckInterval = 0
                   /\ th'.mostRecentRequestRate
                         = computeRequestRate(counted, clock').ret
              ELSE /\ th'.requestsPerCheckInterval
                         = th.requestsPerCheckInterval + 1
                   /\ th'.mostRecentRequestRate
                         = th.mostRecentRequestRate]_vars

\* The latest request was rejected by the very call that recomputed the rate,
\* on a rate above capacity that counts the request itself.
RejectedCallRecomputed ==
    /\ last.req > 1
    /\ last.next = "ThrottledError"
    /\ last.checked
    /\ th.requestsPerCheckInterval = 0
    /\ RateGT(th.mostRecentRequestRate, th.requestRateCapacity)

\* C39: the chunk that takes bytes above maxBytes clears the idle timer and
\* arms none, and bytes never decreases: once bytes is above maxBytes no timer
\* is armed, and no timeout is emitted after a length_exceeded.
NoTimeoutAfterLengthExceeded ==
    [][ctor.result = "constructed" =>
          /\ sg'.bytes >= sg.bytes
          /\ (sg.bytes > sg.maxBytes)' => io'.timers = {}
          /\ \A i, j \in DOMAIN io'.signals :
                (i < j /\ io'.signals[i].name = "length_exceeded") =>
                    io'.signals[j].name # "timeout"]_vars

\* A guard that was not abandoned has emitted length_exceeded and has then
\* been idle for longer than its timeout, with its timeout listener attached.
IdleAfterLengthExceeded ==
    /\ ctor.result = "constructed"
    /\ Signals("length_exceeded") # {}
    /\ ~sg._dead
    /\ "timeout" \in io.listeners
    /\ io.immediates = <<>>
    /\ clock - io.lastActivity > sg.timeout

====
